---- MODULE Spec2Model ----
(***************************************************************************)
(* A model of the Fy engine (fy-engine): the /chat turn of main.py with    *)
(* the guardrails, the intent classifier, the entity extractor, the        *)
(* analysis dispatcher and the response generator it calls.                *)
(*                                                                         *)
(* A text is a sequence of units.  A unit is either a word of Vocabulary   *)
(* (an indivisible piece of a message; two neighbouring words are joined   *)
(* by one blank) or one character of a placeholder the anonymizer writes.  *)
(* The string primitives of the code (str.lower, the "in" substring test,  *)
(* re.search, re.finditer, str.split, str.replace, len) are tabulated on   *)
(* the words of Vocabulary; everything above them follows the code.        *)
(***************************************************************************)
EXTENDS Integers, Sequences, FiniteSets, TLC

\* Largest risk score.
MaxRisk == 100

\* Longest message, in words.
MaxLen == 2

\* How many turns a caller's context may hold beyond the ones that are kept.
ExtraContext == 1

\* Longest list handed to a function on its own: the urls / emails / phones
\* arrays of analyze_entities, the detector results of anonymize.
MaxList == 2

-----------------------------------------------------------------------------
\* Generic helpers (Python built-ins).

Min(a, b) == IF a <= b THEN a ELSE b

Max(a, b) == IF a >= b THEN a ELSE b

\* s[:n] of a Python sequence (n >= 0, clamped to the length).
Take(s, n) == SubSeq(s, 1, Min(n, Len(s)))

\* s[n:] of a Python sequence (n >= 0, clamped to the length).
Drop(s, n) == SubSeq(s, Min(n, Len(s)) + 1, Len(s))

\* s[-n:] of a Python sequence (n > 0).
LastN(s, n) == SubSeq(s, Max(Len(s) - n, 0) + 1, Len(s))

SeqToSet(s) == {s[i] : i \in 1..Len(s)}

\* dict.get(key, default); a dict is a function from its keys.
Get(d, key, default) == IF key \in DOMAIN d THEN d[key] ELSE default

-----------------------------------------------------------------------------
\* The words messages are made of.

Vocabulary ==
    {"hola", "HOLA", "dime", "emergencia", "reportar", "me llamaron",
     "sms raro", "es seguro", "este enlace", "https://b.es/x", "www.b.es",
     "u@b.es", "b.es", "B.ES", "b.io", "612345678", "tinyurl", "12345678A",
     "quiero reportar estafa", "creo que me han estafado", "ya di mis datos"}

Texts == UNION {[1..n -> Vocabulary] : n \in 0..MaxLen}

\* str.lower() of a word or of a matched value.
Lower(w) ==
    CASE w = "HOLA" -> "hola"
      [] w = "B.ES" -> "b.es"
      [] w = "12345678A" -> "12345678a"
      [] OTHER -> w

\* len() of a word.
TokenLen(w) ==
    CASE w \in {"hola", "HOLA", "dime", "b.es", "B.ES", "b.io"} -> 4
      [] w = "u@b.es" -> 6
      [] w = "tinyurl" -> 7
      [] w \in {"reportar", "sms raro", "www.b.es"} -> 8
      [] w \in {"es seguro", "612345678", "12345678A"} -> 9
      [] w = "emergencia" -> 10
      [] w \in {"me llamaron", "este enlace"} -> 11
      [] w = "https://b.es/x" -> 14
      [] w = "ya di mis datos" -> 15
      [] w = "quiero reportar estafa" -> 22
      [] w = "creo que me han estafado" -> 24

-----------------------------------------------------------------------------
\* intent/classifier.py

\* class Intent, in declaration order.
Intents == <<"analysis", "needs_info", "question", "rescue", "report", "smalltalk">>

IntentSet == SeqToSet(Intents)

\* INTENT_PATTERNS[intent]["keywords"], in list order, cut down to the
\* keywords that occur in some word of Vocabulary (no other keyword can hit).
Keywords(intent) ==
    CASE intent = "analysis" -> <<"es seguro", "este enlace", "me llamaron">>
      [] intent = "rescue" ->
            <<"me han estafado", "di mis datos", "emergencia", "ya di",
              "creo que me han">>
      [] intent = "needs_info" -> <<"me llamaron", "sms raro">>
      [] intent = "question" -> <<"dime">>
      [] intent = "report" -> <<"reportar", "reportar estafa", "quiero reportar">>
      [] intent = "smalltalk" -> <<"hola">>

\* INTENT_PATTERNS[intent]["patterns"], each regex named by its place in the
\* list: 1 https?://  2 bit\.ly|tinyurl  3 @\w+\.\w+  4 \+?34[\s.-]?[6789]
\* 5 the 9-digit Spanish phone  6 the bare domain.
IntentPatterns(intent) ==
    IF intent = "analysis" THEN <<1, 2, 3, 4, 5, 6>> ELSE << >>

\* The f"pattern:{pattern}" trigger of pattern p.
PatternTrigger(p) ==
    <<"pattern:1", "pattern:2", "pattern:3", "pattern:4", "pattern:5", "pattern:6">>[p]

\* The keywords k with "k in w" for a lower-cased word w.
KeywordsInWord(w) ==
    CASE w = "hola" -> {"hola"}
      [] w = "dime" -> {"dime"}
      [] w = "emergencia" -> {"emergencia"}
      [] w = "reportar" -> {"reportar"}
      [] w = "quiero reportar estafa" ->
            {"reportar", "reportar estafa", "quiero reportar"}
      [] w = "creo que me han estafado" -> {"me han estafado", "creo que me han"}
      [] w = "ya di mis datos" -> {"di mis datos", "ya di"}
      [] w = "me llamaron" -> {"me llamaron"}
      [] w = "sms raro" -> {"sms raro"}
      [] w = "es seguro" -> {"es seguro"}
      [] w = "este enlace" -> {"este enlace"}
      [] OTHER -> {}

\* The Analysis patterns p with re.search(p, w, re.IGNORECASE) for a word w.
PatternsInWord(w) ==
    CASE w = "https://b.es/x" -> {1, 6}
      [] w = "www.b.es" -> {6}
      [] w = "u@b.es" -> {3, 6}
      [] w \in {"b.es", "B.ES"} -> {6}
      [] w = "612345678" -> {5}
      [] w = "tinyurl" -> {2}
      [] OTHER -> {}

\* text.lower()
LowerText(text) == [i \in 1..Len(text) |-> Lower(text[i])]

\* keyword in text_lower
KeywordIn(keyword, text_lower) ==
    \E i \in 1..Len(text_lower) : keyword \in KeywordsInWord(text_lower[i])

\* re.search(pattern, text, re.IGNORECASE)
ReSearch(pattern, text) ==
    \E i \in 1..Len(text) : pattern \in PatternsInWord(text[i])

\* has_analyzable_entity of classify_intent.
HasAnalyzableEntity(text) ==
    \E k \in 1..Len(IntentPatterns("analysis")) :
        ReSearch(IntentPatterns("analysis")[k], text)

KeywordHits(intent, text) ==
    SelectSeq(Keywords(intent), LAMBDA k : KeywordIn(k, LowerText(text)))

PatternHits(intent, text) ==
    SelectSeq(IntentPatterns(intent), LAMBDA p : ReSearch(p, text))

\* scores[intent] after the scoring loop: 1.0 a keyword, 2.0 a pattern.
Score(intent, text) ==
    Len(KeywordHits(intent, text)) * 1 + Len(PatternHits(intent, text)) * 2

\* triggers[intent] after the scoring loop.
Triggers(intent, text) ==
    KeywordHits(intent, text) \o
        [i \in 1..Len(PatternHits(intent, text)) |->
            PatternTrigger(PatternHits(intent, text)[i])]

\* min(score / k, 1.0), in thirtieths (the common denominator of the
\* divisors 5.0, 3.0, 2.0 and of the default 0.3 = 9/30).
Confidence(score, k) == IF score >= k THEN 30 ELSE (score * 30) \div k

\* max() that keeps the last of the keys that carry the largest score.
BestIntent_Last(order, text) ==
    order[CHOOSE i \in 1..Len(order) :
            /\ \A j \in 1..Len(order) : Score(order[j], text) <= Score(order[i], text)
            /\ \A j \in (i + 1)..Len(order) : Score(order[j], text) < Score(order[i], text)]

\* max(remaining_intents, key=remaining_intents.get): the first key, in
\* insertion order, that carries the largest score.
BestIntent(order, text) ==
    order[CHOOSE i \in 1..Len(order) :
            /\ \A j \in 1..Len(order) : Score(order[j], text) <= Score(order[i], text)
            /\ \A j \in 1..(i - 1) : Score(order[j], text) < Score(order[i], text)]

IntentResult(intent, confidence, trigger_words) ==
    [intent |-> intent, confidence |-> confidence, trigger_words |-> trigger_words]

\* classify_intent with Analysis left out of the largest-score rule, like
\* NeedsInfo.
classify_intent_MaxWithoutAnalysis(text) ==
    LET remaining == SelectSeq(Intents, LAMBDA k : k \notin {"needs_info", "analysis"})
        best_intent == BestIntent(remaining, text)
        best_score == Score(best_intent, text)
    IN  IF Score("analysis", text) >= 2
        THEN IntentResult("analysis", Confidence(Score("analysis", text), 5),
                          Triggers("analysis", text))
        ELSE IF Score("rescue", text) > 0
        THEN IntentResult("rescue", Confidence(Score("rescue", text), 3),
                          Triggers("rescue", text))
        ELSE IF Score("report", text) > 0
        THEN IntentResult("report", Confidence(Score("report", text), 2),
                          Triggers("report", text))
        ELSE IF Score("needs_info", text) > 0 /\ ~HasAnalyzableEntity(text)
        THEN IntentResult("needs_info", Confidence(Score("needs_info", text), 3),
                          Triggers("needs_info", text))
        ELSE IF best_score = 0
        THEN IntentResult("question", 9, << >>)
        ELSE IntentResult(best_intent, Confidence(best_score, 3),
                          Triggers(best_intent, text))

\* classify_intent with the report rule tested ahead of the rescue rule.
classify_intent_ReportFirst(text) ==
    LET remaining == SelectSeq(Intents, LAMBDA k : k # "needs_info")
        best_intent == BestIntent(remaining, text)
        best_score == Score(best_intent, text)
    IN  IF Score("analysis", text) >= 2
        THEN IntentResult("analysis", Confidence(Score("analysis", text), 5),
                          Triggers("analysis", text))
        ELSE IF Score("report", text) > 0
        THEN IntentResult("report", Confidence(Score("report", text), 2),
                          Triggers("report", text))
        ELSE IF Score("rescue", text) > 0
        THEN IntentResult("rescue", Confidence(Score("rescue", text), 3),
                          Triggers("rescue", text))
        ELSE IF Score("needs_info", text) > 0 /\ ~HasAnalyzableEntity(text)
        THEN IntentResult("needs_info", Confidence(Score("needs_info", text), 3),
                          Triggers("needs_info", text))
        ELSE IF best_score = 0
        THEN IntentResult("question", 9, << >>)
        ELSE IntentResult(best_intent, Confidence(best_score, 3),
                          Triggers(best_intent, text))

\* classify_intent without the needs_info rule: such texts go to the
\* largest-score rule.
classify_intent_NoNeedsInfoRule(text) ==
    LET remaining == SelectSeq(Intents, LAMBDA k : k # "needs_info")
        best_intent == BestIntent(remaining, text)
        best_score == Score(best_intent, text)
    IN  IF Score("analysis", text) >= 2
        THEN IntentResult("analysis", Confidence(Score("analysis", text), 5),
                          Triggers("analysis", text))
        ELSE IF Score("rescue", text) > 0
        THEN IntentResult("rescue", Confidence(Score("rescue", text), 3),
                          Triggers("rescue", text))
        ELSE IF Score("report", text) > 0
        THEN IntentResult("report", Confidence(Score("report", text), 2),
                          Triggers("report", text))
        ELSE IF best_score = 0
        THEN IntentResult("question", 9, << >>)
        ELSE IntentResult(best_intent, Confidence(best_score, 3),
                          Triggers(best_intent, text))

\* classify_intent without the default: a text nothing matches gets the
\* first intent with its score of 0.
classify_intent_NoDefault(text) ==
    LET remaining == SelectSeq(Intents, LAMBDA k : k # "needs_info")
        best_intent == BestIntent(remaining, text)
        best_score == Score(best_intent, text)
    IN  IF Score("analysis", text) >= 2
        THEN IntentResult("analysis", Confidence(Score("analysis", text), 5),
                          Triggers("analysis", text))
        ELSE IF Score("rescue", text) > 0
        THEN IntentResult("rescue", Confidence(Score("rescue", text), 3),
                          Triggers("rescue", text))
        ELSE IF Score("report", text) > 0
        THEN IntentResult("report", Confidence(Score("report", text), 2),
                          Triggers("report", text))
        ELSE IF Score("needs_info", text) > 0 /\ ~HasAnalyzableEntity(text)
        THEN IntentResult("needs_info", Confidence(Score("needs_info", text), 3),
                          Triggers("needs_info", text))
        ELSE IF best_score = 0
        THEN IntentResult(best_intent, Confidence(best_score, 3), << >>)
        ELSE IntentResult(best_intent, Confidence(best_score, 3),
                          Triggers(best_intent, text))

\* classify_intent with the rescue rule tested ahead of the analysis rule.
classify_intent_RescueFirst(text) ==
    IF Score("rescue", text) > 0
    THEN IntentResult("rescue", Confidence(Score("rescue", text), 3),
                      Triggers("rescue", text))
    ELSE IF Score("analysis", text) >= 2
    THEN IntentResult("analysis", Confidence(Score("analysis", text), 5),
                      Triggers("analysis", text))
    ELSE IntentResult("question", 9, << >>)

classify_intent(text) ==
    LET remaining == SelectSeq(Intents, LAMBDA k : k # "needs_info")
        best_intent == BestIntent(remaining, text)
        best_score == Score(best_intent, text)
    IN  IF Score("analysis", text) >= 2
        THEN IntentResult("analysis", Confidence(Score("analysis", text), 5),
                          Triggers("analysis", text))
        ELSE IF Score("rescue", text) > 0
        THEN IntentResult("rescue", Confidence(Score("rescue", text), 3),
                          Triggers("rescue", text))
        ELSE IF Score("report", text) > 0
        THEN IntentResult("report", Confidence(Score("report", text), 2),
                          Triggers("report", text))
        ELSE IF Score("needs_info", text) > 0 /\ ~HasAnalyzableEntity(text)
        THEN IntentResult("needs_info", Confidence(Score("needs_info", text), 3),
                          Triggers("needs_info", text))
        ELSE IF best_score = 0
        THEN IntentResult("question", 9, << >>)
        ELSE IntentResult(best_intent, Confidence(best_score, 3),
                          Triggers(best_intent, text))

\* needs_analysis that says yes to every intent.
needs_analysis_Always(intent_result) == TRUE

needs_analysis(intent_result) == intent_result.intent = "analysis"

-----------------------------------------------------------------------------
\* intent/entities.py

\* PATTERNS: the entity types in dict order, and how many regexes each has.
EntityTypes == <<"url", "email", "phone">>

PatternCount(entity_type) ==
    CASE entity_type = "url" -> 4
      [] entity_type = "email" -> 1
      [] entity_type = "phone" -> 3

Match(value, start, end) == [value |-> value, start |-> start, end |-> end]

\* re.finditer(PATTERNS[entity_type][pidx - 1], w, re.IGNORECASE) on one word
\* w: the matches in order, each with match.group().strip() and its offsets
\* in the word.
WordMatches(entity_type, pidx, w) ==
    CASE entity_type = "url" /\ pidx = 1 /\ w = "https://b.es/x" ->
            <<Match("https://b.es/x", 0, 14)>>
      [] entity_type = "url" /\ pidx = 2 /\ w = "www.b.es" ->
            <<Match("www.b.es", 0, 8)>>
      [] entity_type = "url" /\ pidx = 4 /\ w = "https://b.es/x" ->
            <<Match("b.es", 8, 12)>>
      [] entity_type = "url" /\ pidx = 4 /\ w = "www.b.es" ->
            <<Match("b.es", 4, 8)>>
      [] entity_type = "url" /\ pidx = 4 /\ w = "u@b.es" ->
            <<Match("b.es", 2, 6)>>
      [] entity_type = "url" /\ pidx = 4 /\ w = "b.es" ->
            <<Match("b.es", 0, 4)>>
      [] entity_type = "url" /\ pidx = 4 /\ w = "B.ES" ->
            <<Match("B.ES", 0, 4)>>
      [] entity_type = "url" /\ pidx = 4 /\ w = "b.io" ->
            <<Match("b.io", 0, 4)>>
      [] entity_type = "email" /\ pidx = 1 /\ w = "u@b.es" ->
            <<Match("u@b.es", 0, 6)>>
      [] entity_type = "phone" /\ pidx = 2 /\ w = "612345678" ->
            <<Match("612345678", 0, 9)>>
      [] OTHER -> << >>

RECURSIVE FindIterFrom(_, _, _, _, _)
FindIterFrom(entity_type, pidx, text, i, offset) ==
    IF i > Len(text) THEN << >>
    ELSE LET here == WordMatches(entity_type, pidx, text[i])
         IN  [k \in 1..Len(here) |->
                 Match(here[k].value, offset + here[k].start, offset + here[k].end)]
             \o FindIterFrom(entity_type, pidx, text, i + 1,
                             offset + TokenLen(text[i]) + 1)

\* re.finditer(pattern, text, re.IGNORECASE): the matches of the whole text,
\* left to right, with their offsets in the text.
FindIter(entity_type, pidx, text) == FindIterFrom(entity_type, pidx, text, 1, 0)

\* email.split('@')[1] if '@' in email else ''
EmailDomainOf(email) == IF email = "u@b.es" THEN "b.es" ELSE ""

\* s.startswith('http')
StartsWithHttp(s) == s = "https://b.es/x"

\* '//' in s
HasDoubleSlash(s) == s = "https://b.es/x"

\* s.split('//')[1].split('/')[0]
HostOf(s) == IF s = "https://b.es/x" THEN "b.es" ELSE s

\* s.replace('www.', '')
ReplaceWww(s) == IF s = "www.b.es" THEN "b.es" ELSE s

\* url_domain of extract_entities for a URL candidate.
UrlDomain(value) ==
    LET lowered == Lower(value)
        host == IF StartsWithHttp(lowered)
                THEN (IF HasDoubleSlash(lowered) THEN HostOf(lowered) ELSE lowered)
                ELSE lowered
    IN  ReplaceWww(host)

Entity(type, value, start, end) ==
    [type |-> type, value |-> value, start |-> start, end |-> end]

\* The first loop of extract_entities: every email match is appended.
EmailEntities(text) ==
    LET found == FindIter("email", 1, text)
    IN  [k \in 1..Len(found) |->
            Entity("email", found[k].value, found[k].start, found[k].end)]

\* email_domains after the first loop.
EmailDomains(text) ==
    LET found == FindIter("email", 1, text)
    IN  {Lower(EmailDomainOf(found[k].value)) :
            k \in {j \in 1..Len(found) : EmailDomainOf(found[j].value) # ""}}

\* The body of "for match in re.finditer(...)" of the second loop, run over
\* the matches of one pattern.
RECURSIVE AddMatches(_, _, _, _)
AddMatches(entities, entity_type, found, email_domains) ==
    IF found = << >> THEN entities
    ELSE LET value == Head(found).value
         IN  IF \E k \in 1..Len(entities) : entities[k].value = value
             THEN AddMatches(entities, entity_type, Tail(found), email_domains)
             ELSE IF entity_type = "url" /\ UrlDomain(value) \in email_domains
             THEN AddMatches(entities, entity_type, Tail(found), email_domains)
             ELSE AddMatches(
                      Append(entities,
                             Entity(entity_type, value, Head(found).start, Head(found).end)),
                      entity_type, Tail(found), email_domains)

\* "for pattern in patterns" of the second loop, from pattern pidx on.
RECURSIVE AddPatterns(_, _, _, _, _)
AddPatterns(entities, entity_type, pidx, text, email_domains) ==
    IF pidx > PatternCount(entity_type) THEN entities
    ELSE AddPatterns(
             AddMatches(entities, entity_type, FindIter(entity_type, pidx, text),
                        email_domains),
             entity_type, pidx + 1, text, email_domains)

\* "for entity_type, patterns in PATTERNS.items()" of the second loop.
RECURSIVE AddTypes(_, _, _, _)
AddTypes(entities, t, text, email_domains) ==
    IF t > Len(EntityTypes) THEN entities
    ELSE IF EntityTypes[t] = "email"
    THEN AddTypes(entities, t + 1, text, email_domains)
    ELSE AddTypes(AddPatterns(entities, EntityTypes[t], 1, text, email_domains),
                  t + 1, text, email_domains)

extract_entities(text) ==
    AddTypes(EmailEntities(text), 1, text, EmailDomains(text))

\* [e.value for e in entities if e.type == type]
ValuesOfType(entities, type) ==
    LET kept == SelectSeq(entities, LAMBDA e : e.type = type)
    IN  [k \in 1..Len(kept) |-> kept[k].value]

get_entities_for_analysis(text) ==
    LET entities == extract_entities(text)
    IN  [urls |-> ValuesOfType(entities, "url"),
         emails |-> ValuesOfType(entities, "email"),
         phones |-> ValuesOfType(entities, "phone")]

\* any(entities.values())
AnyEntities(entities) ==
    entities.urls # << >> \/ entities.emails # << >> \/ entities.phones # << >>

-----------------------------------------------------------------------------
\* Python's None.  A missing dict and an empty one are both the empty function.
None == << >>

-----------------------------------------------------------------------------
\* guardrails/pii_detector.py and guardrails/anonymizer.py

\* The characters of an entity type's name.
TypeChars(entity_type) ==
    CASE entity_type = "ES_DNI" -> <<"E", "S", "_", "D", "N", "I">>
      [] entity_type = "PERSON" -> <<"P", "E", "R", "S", "O", "N">>

\* str(i), character by character.
RECURSIVE Digits(_)
Digits(i) ==
    IF i < 10
    THEN <<(<<"0", "1", "2", "3", "4", "5", "6", "7", "8", "9">>)[i + 1]>>
    ELSE Digits(i \div 10) \o Digits(i % 10)

\* f"[{entity_type}_{i}]", character by character.
Placeholder(entity_type, i) ==
    <<"[">> \o TypeChars(entity_type) \o <<"_">> \o Digits(i) \o <<"]">>

RecognizerResult(entity_type, start, end, score) ==
    [entity_type |-> entity_type, start |-> start, end |-> end, score |-> score]

\* PIIDetector.detect on a text of words: the ES_DNI recognizer (8 digits and
\* a letter, score 0.95, kept in hundredths) finds every such word; start and
\* end count units from 0, end excluded.
detect(text) ==
    LET at == SelectSeq([i \in 1..Len(text) |-> i], LAMBDA i : text[i] = "12345678A")
    IN  [k \in 1..Len(at) |-> RecognizerResult("ES_DNI", at[k] - 1, at[k], 95)]

\* One result into a list already sorted by start, descending: behind every
\* result that starts at or after it (the sort is stable).
InsertByStartDesc(sorted, r) ==
    LET n == Cardinality({k \in 1..Len(sorted) : sorted[k].start >= r.start})
    IN  Take(sorted, n) \o <<r>> \o Drop(sorted, n)

\* sorted(results, key=lambda x: x.start, reverse=True)
RECURSIVE SortByStartDesc(_)
SortByStartDesc(results) ==
    IF results = << >> THEN << >>
    ELSE InsertByStartDesc(SortByStartDesc(Take(results, Len(results) - 1)),
                           results[Len(results)])

\* The loop of PIIAnonymizer.anonymize from the i-th sorted result on
\* (i counts from 0, as enumerate does).
RECURSIVE AnonymizeLoop(_, _, _, _, _)
AnonymizeLoop(text, sorted_results, i, anonymized_text, pii_map) ==
    IF i >= Len(sorted_results)
    THEN [text |-> anonymized_text, pii_map |-> pii_map, had_pii |-> TRUE]
    ELSE LET result == sorted_results[i + 1]
             original_value == Drop(Take(text, result.end), result.start)
             placeholder == Placeholder(result.entity_type, i)
         IN  AnonymizeLoop(text, sorted_results, i + 1,
                           Take(anonymized_text, result.start) \o placeholder
                               \o Drop(anonymized_text, result.end),
                           (placeholder :> original_value) @@ pii_map)

\* PIIAnonymizer.anonymize, given what the detector found in the text.
anonymize(text, results) ==
    IF results = << >>
    THEN [text |-> text, pii_map |-> None, had_pii |-> FALSE]
    ELSE AnonymizeLoop(text, SortByStartDesc(results), 0, text, None)

\* PIIAnonymizer.check_output, given what the detector found in the text.
check_output(results) ==
    IF results = << >>
    THEN [is_safe |-> TRUE, entities_found |-> << >>]
    ELSE [is_safe |-> FALSE,
          entities_found |->
              [k \in 1..Len(results) |->
                  [type |-> results[k].entity_type, score |-> results[k].score]]]

-----------------------------------------------------------------------------
\* services/analysis.py

\* What the analysis service does with one request: it raises (a timeout, a
\* transport error), or it answers with a status code and, on 200, a JSON
\* body.  The body repeats the type and the content it was asked about.
ServiceOutcome(raised, status_code, answer) ==
    [raised |-> raised, status_code |-> status_code, answer |-> answer]

ServiceAnswers ==
    {[risk_score |-> 0, verdict |-> "safe", reasons |-> << >>],
     [risk_score |-> 45, verdict |-> "suspicious", reasons |-> <<"dominio reciente">>,
      found_in_db |-> FALSE, source |-> "heuristica"],
     [risk_score |-> 85, verdict |-> "dangerous",
      reasons |-> <<"phishing", "reportado por usuarios">>,
      found_in_db |-> TRUE, source |-> "localdb", latency_ms |-> 12]}

ServiceOutcomes ==
    {ServiceOutcome("", 200, a) : a \in ServiceAnswers}
        \cup {ServiceOutcome("", 500, None),
              ServiceOutcome("TimeoutException", 0, None),
              ServiceOutcome("ConnectError", 0, None)}

\* How the call failed, as the caller sees it: the exception raised inside
\* the try block, or a status other than 200 ("" when it did not fail).
ServiceFailure(outcome) ==
    IF outcome.raised # "" THEN outcome.raised
    ELSE IF outcome.status_code # 200 THEN "HTTPStatus"
    ELSE ""

\* response.json()
ServiceJson(outcome, entity_type, value) ==
    [type |-> entity_type, content |-> value] @@ outcome.answer

\* client.post(f"{ANALYSIS_SERVICE_URL}{path}", json=json)
Post(path, json) == [method |-> "POST", path |-> path, json |-> json]

\* What one of analyze_url / analyze_email / analyze_phone did: the request
\* it sent and the dict it returned.
Called(sent, result) == [sent |-> sent, result |-> result]

\* analyze_url that sends the request a second time when the first try failed.
analyze_url_Retry(url, outcome) ==
    IF outcome.raised = "" /\ outcome.status_code = 200
    THEN Called(<<Post("/analyze/url", [url |-> url])>>,
                ServiceJson(outcome, "url", url))
    ELSE Called(<<Post("/analyze/url", [url |-> url]),
                  Post("/analyze/url", [url |-> url])>>,
                [type |-> "url", content |-> url, risk_score |-> 50,
                 verdict |-> "unknown",
                 reasons |-> <<"No se pudo analizar el enlace. Procede con precaucion.">>])

\* analyze_url without the status code test: whatever body came back is
\* returned.
analyze_url_NoStatusCheck(url, outcome) ==
    Called(<<Post("/analyze/url", [url |-> url])>>,
           IF outcome.raised = ""
           THEN ServiceJson(outcome, "url", url)
           ELSE [type |-> "url", content |-> url, risk_score |-> 50,
                 verdict |-> "unknown",
                 reasons |-> <<"No se pudo analizar el enlace. Procede con precaucion.">>])

analyze_url(url, outcome) ==
    Called(<<Post("/analyze/url", [url |-> url])>>,
           IF outcome.raised = "" /\ outcome.status_code = 200
           THEN ServiceJson(outcome, "url", url)
           ELSE [type |-> "url", content |-> url, risk_score |-> 50,
                 verdict |-> "unknown",
                 reasons |-> <<"No se pudo analizar el enlace. Procede con precaucion.">>])

analyze_email(email, outcome) ==
    Called(<<Post("/analyze/email", [email |-> email])>>,
           IF outcome.raised = "" /\ outcome.status_code = 200
           THEN ServiceJson(outcome, "email", email)
           ELSE [type |-> "email", content |-> email, risk_score |-> 50,
                 verdict |-> "unknown",
                 reasons |-> <<"No se pudo verificar el email.">>])

analyze_phone(phone, outcome) ==
    Called(<<Post("/analyze/phone", [phone |-> phone])>>,
           IF outcome.raised = "" /\ outcome.status_code = 200
           THEN ServiceJson(outcome, "phone", phone)
           ELSE [type |-> "phone", content |-> phone, risk_score |-> 50,
                 verdict |-> "unknown",
                 reasons |-> <<"No se pudo verificar el numero.">>])

\* analyze_entities with the email test ahead of the URL test.
analyze_entities_EmailFirst(entities, outcome) ==
    IF entities.emails # << >> THEN analyze_email(entities.emails[1], outcome)
    ELSE IF entities.urls # << >> THEN analyze_url(entities.urls[1], outcome)
    ELSE IF entities.phones # << >> THEN analyze_phone(entities.phones[1], outcome)
    ELSE Called(<< >>, None)

analyze_entities(entities, outcome) ==
    IF entities.urls # << >> THEN analyze_url(entities.urls[1], outcome)
    ELSE IF entities.emails # << >> THEN analyze_email(entities.emails[1], outcome)
    ELSE IF entities.phones # << >> THEN analyze_phone(entities.phones[1], outcome)
    ELSE Called(<< >>, None)

-----------------------------------------------------------------------------
\* llm/prompts.py

\* The replacement fields each template names between braces.
TemplateFields(template) ==
    CASE template = "ANALYSIS_PROMPT" ->
            {"entity_type", "content", "risk_level", "verdict", "found_in_db",
             "source", "reasons"}
      [] template = "RESCUE_PROMPT" -> {"situation"}
      [] template = "QUESTION_PROMPT" -> {"topic"}
      [] template = "SMALLTALK_PROMPT" -> {"message"}
      [] template = "NEEDS_INFO_PROMPT" -> {"message", "detected_context"}
      [] template = "REPORT_PROMPT" -> {}

\* A prompt block: the template and the values written into its fields.
Prompt(template, values) == [raised |-> "", template |-> template, values |-> values]

\* An exception that leaves the function instead of a value.
Raise(exception) == [raised |-> exception, template |-> "", values |-> None]

\* template.format(**kwargs): every field of the template is looked up in
\* kwargs, a missing one raises KeyError; kwargs the template does not name
\* are ignored.
Format(template, kwargs) ==
    IF TemplateFields(template) \subseteq DOMAIN kwargs
    THEN Prompt(template, [f \in TemplateFields(template) |-> kwargs[f]])
    ELSE Raise("KeyError")

get_prompt_for_intent(intent, kwargs) ==
    IF intent = "analysis" THEN Format("ANALYSIS_PROMPT", kwargs)
    ELSE IF intent = "rescue" THEN Format("RESCUE_PROMPT", kwargs)
    ELSE IF intent = "question" THEN Format("QUESTION_PROMPT", kwargs)
    ELSE IF intent = "smalltalk" THEN Format("SMALLTALK_PROMPT", kwargs)
    ELSE IF intent = "needs_info" THEN Format("NEEDS_INFO_PROMPT", kwargs)
    ELSE IF intent = "report" THEN Prompt("REPORT_PROMPT", None)
    ELSE Prompt("", None)

\* get_mood_from_risk with the thresholds themselves left below.
get_mood_from_risk_Above(risk_level) ==
    IF risk_level > 70 THEN "danger"
    ELSE IF risk_level > 40 THEN "warning"
    ELSE IF risk_level > 0 THEN "thinking"
    ELSE "happy"

get_mood_from_risk(risk_level) ==
    IF risk_level >= 70 THEN "danger"
    ELSE IF risk_level >= 40 THEN "warning"
    ELSE IF risk_level > 0 THEN "thinking"
    ELSE "happy"

-----------------------------------------------------------------------------
\* llm/client.py

\* context[-10:] keeps this many turns.
ContextWindow == 10

\* The groups of words _detect_missing_info_context looks for (1 sms/mensaje,
\* 2 llamada/numero, 3 email/correo, 4 enlace/url) that occur in a word.
MentionsInWord(w) ==
    CASE w = "sms raro" -> {1}
      [] w = "me llamaron" -> {2}
      [] w \in {"este enlace", "tinyurl"} -> {4}
      [] OTHER -> {}

MissingInfoContext(group) ==
    <<"SMS o mensaje de texto (falta el contenido o numero del remitente)",
      "llamada telefonica (falta el numero)",
      "email o correo (falta el remitente o contenido)",
      "enlace o URL (falta la direccion web)">>[group]

\* _detect_missing_info_context: the contexts that " / ".join puts together.
detect_missing_info_context(message) ==
    LET message_lower == LowerText(message)
        contexts ==
            SelectSeq(<<1, 2, 3, 4>>,
                      LAMBDA g : \E i \in 1..Len(message_lower) :
                                     g \in MentionsInWord(message_lower[i]))
    IN  IF contexts = << >>
        THEN <<"contacto sospechoso (falta el numero, email o enlace para verificar)">>
        ELSE [k \in 1..Len(contexts) |-> MissingInfoContext(contexts[k])]

\* What the generation service does with one request: it answers with a
\* text, or the call raises.
LLMReplies == {<<"respuesta">>, <<"respuesta", "12345678A">>}

LLMOutcomes ==
    {[raised |-> "", content |-> r] : r \in LLMReplies}
        \cup {[raised |-> "APIError", content |-> <<"api key rechazada">>]}

\* The reply of the except branch of generate_response.
FallbackReply == <<"Ups, algo ha fallado por mi parte.">>

\* "\n".join(f"- {r}" for r in reasons) or "- Sin informacion adicional"
ReasonsText(reasons) ==
    IF reasons = << >> THEN <<"- Sin informacion adicional">>
    ELSE [k \in 1..Len(reasons) |-> <<"- ", reasons[k]>>]

\* if analysis_result: (None and the empty dict are false)
Truthy(d) == DOMAIN d # {}

\* The branch of generate_response the intent takes.
PromptBranch(intent, analysis_result) ==
    IF intent = "analysis" /\ Truthy(analysis_result) THEN "analysis"
    ELSE IF intent = "rescue" THEN "rescue"
    ELSE IF intent = "question" THEN "question"
    ELSE IF intent = "needs_info" THEN "needs_info"
    ELSE "smalltalk"

\* prompt_addition of generate_response.
PromptAddition(user_message, intent, analysis_result) ==
    LET branch == PromptBranch(intent, analysis_result)
    IN  CASE branch = "analysis" ->
                get_prompt_for_intent("analysis",
                    [entity_type |-> Get(analysis_result, "type", "desconocido"),
                     content |-> Get(analysis_result, "content", ""),
                     risk_level |-> Get(analysis_result, "risk_score", 0),
                     verdict |-> Get(analysis_result, "verdict", "desconocido"),
                     reasons |-> ReasonsText(Get(analysis_result, "reasons", << >>))])
          [] branch = "rescue" ->
                get_prompt_for_intent("rescue", [situation |-> user_message])
          [] branch = "question" ->
                get_prompt_for_intent("question", [topic |-> user_message])
          [] branch = "needs_info" ->
                get_prompt_for_intent("needs_info",
                    [message |-> user_message,
                     detected_context |-> detect_missing_info_context(user_message)])
          [] branch = "smalltalk" ->
                get_prompt_for_intent("smalltalk", [message |-> user_message])

\* mood of generate_response with the rescue branch reading the risk score
\* like the analysis branch.
MoodOfBranch_RescueByRisk(intent, analysis_result) ==
    LET branch == PromptBranch(intent, analysis_result)
    IN  CASE branch \in {"analysis", "rescue"} ->
                get_mood_from_risk(Get(analysis_result, "risk_score", 0))
          [] branch = "question" -> "thinking"
          [] branch = "needs_info" -> "thinking"
          [] branch = "smalltalk" -> "happy"

\* mood of generate_response.
MoodOfBranch(intent, analysis_result) ==
    LET branch == PromptBranch(intent, analysis_result)
    IN  CASE branch = "analysis" ->
                get_mood_from_risk(Get(analysis_result, "risk_score", 0))
          [] branch = "rescue" -> "danger"
          [] branch = "question" -> "thinking"
          [] branch = "needs_info" -> "thinking"
          [] branch = "smalltalk" -> "happy"

ChatMessage(role, content) == [role |-> role, content |-> content]

\* f"{user_message}\n\n{prompt_addition}"
FullMessage(user_message, prompt_addition) ==
    [head |-> user_message, sep |-> "\n\n", block |-> prompt_addition]

\* messages of generate_response with the whole context, not its last turns.
Messages_WholeContext(user_message, context, prompt_addition) ==
    <<ChatMessage("system", "FY_SYSTEM_PROMPT")>>
        \o context
        \o <<ChatMessage("user", FullMessage(user_message, prompt_addition))>>

\* messages of generate_response, as handed to the generation service.
Messages(user_message, context, prompt_addition) ==
    <<ChatMessage("system", "FY_SYSTEM_PROMPT")>>
        \o (IF context # << >> THEN LastN(context, ContextWindow) ELSE << >>)
        \o <<ChatMessage("user", FullMessage(user_message, prompt_addition))>>

\* generate_response without the except branch: a failure of the generation
\* service leaves the function.
generate_response_Reraise(user_message, intent, context, analysis_result, llm) ==
    LET prompt_addition == PromptAddition(user_message, intent, analysis_result)
        mood == MoodOfBranch(intent, analysis_result)
        messages == Messages(user_message, context, prompt_addition)
    IN  IF prompt_addition.raised # ""
        THEN [raised |-> prompt_addition.raised, sent |-> << >>, result |-> None]
        ELSE IF llm.raised = ""
        THEN [raised |-> "", sent |-> <<messages>>,
              result |-> [response |-> llm.content, mood |-> mood]]
        ELSE [raised |-> llm.raised, sent |-> <<messages>>, result |-> None]

\* generate_response, given what the generation service does when called.
\* raised: the exception that leaves the function ("" when it returns);
\* sent: the requests made to the generation service; result: the dict
\* returned.
generate_response(user_message, intent, context, analysis_result, llm) ==
    LET prompt_addition == PromptAddition(user_message, intent, analysis_result)
        mood == MoodOfBranch(intent, analysis_result)
        messages == Messages(user_message, context, prompt_addition)
    IN  IF prompt_addition.raised # ""
        THEN [raised |-> prompt_addition.raised, sent |-> << >>, result |-> None]
        ELSE IF llm.raised = ""
        THEN [raised |-> "", sent |-> <<messages>>,
              result |-> [response |-> llm.content, mood |-> mood]]
        ELSE [raised |-> "", sent |-> <<messages>>,
              result |-> [response |-> FallbackReply, mood |-> "thinking",
                          error |-> llm.content]]

-----------------------------------------------------------------------------
\* main.py: one /chat turn.

VARIABLES
    pc,                 \* where chat() stands
    request,            \* the ChatRequest being served
    anonymized_message, pii_map, had_pii,
    intent_result,
    entities,
    analysis_result, analysis_performed,
    llm_result,
    verified,           \* (is_safe, entities_found) of verify_output
    response,           \* the ChatResponse returned, None until then
    raised,             \* the exception that ended the turn, "" if none
    calls               \* every call chat() made to a collaborator, in order

vars ==
    <<pc, request, anonymized_message, pii_map, had_pii, intent_result, entities,
      analysis_result, analysis_performed, llm_result, verified, response, raised,
      calls>>

\* A call to a collaborator: whom, with what, and the exception it raised
\* ("" when it returned).
Call(to, arg, exception) == [to |-> to, arg |-> arg, raised |-> exception]

\* The calls of the turn made to one collaborator.
CallsTo(to) == SelectSeq(calls, LAMBDA c : c.to = to)

\* The context a caller sends: n earlier turns, each with a DNI in it.
ContextOf(n) ==
    [i \in 1..n |->
        ChatMessage(IF i % 2 = 1 THEN "user" ELSE "assistant",
                    <<"12345678A">> \o Digits(i))]

ContextLengths == {0, 1, ContextWindow, ContextWindow + ExtraContext}

ChatRequest(message, context) ==
    [user_id |-> "u1", message |-> message, context |-> context]

\* The locals of chat() before a turn has set them.
LocalsUnset ==
    /\ anonymized_message = None
    /\ pii_map = None
    /\ had_pii = FALSE
    /\ intent_result = None
    /\ entities = None
    /\ analysis_result = None
    /\ analysis_performed = FALSE
    /\ llm_result = None
    /\ verified = None
    /\ response = None
    /\ raised = ""
    /\ calls = << >>

\* The service is up and no request has come in.
Init ==
    /\ pc = "idle"
    /\ request = None
    /\ LocalsUnset

\* A POST /chat arrives.
ChatStart ==
    /\ pc = "idle"
    /\ \E message \in Texts, n \in ContextLengths :
           request' = ChatRequest(message, ContextOf(n))
    /\ pc' = "start"
    /\ anonymized_message' = None
    /\ pii_map' = None
    /\ had_pii' = FALSE
    /\ intent_result' = None
    /\ entities' = None
    /\ analysis_result' = None
    /\ analysis_performed' = FALSE
    /\ llm_result' = None
    /\ verified' = None
    /\ response' = None
    /\ raised' = ""
    /\ calls' = << >>

\* 1. anonymize_input(original_message) returns.
AnonymizeInput ==
    /\ pc = "start"
    /\ LET r == anonymize(request.message, detect(request.message))
       IN  /\ anonymized_message' = r.text
           /\ pii_map' = r.pii_map
           /\ had_pii' = r.had_pii
    /\ calls' = Append(calls, Call("anonymize_input", request.message, ""))
    /\ pc' = "anonymized"
    /\ UNCHANGED <<request, intent_result, entities, analysis_result,
                   analysis_performed, llm_result, verified, response, raised>>

\* chat() with the failure of anonymize_input caught and the turn carried on
\* with the message as it came.
AnonymizeInputRaises_Swallowed ==
    /\ pc = "start"
    /\ calls' = Append(calls, Call("anonymize_input", request.message,
                                    "AnonymizationFailure"))
    /\ anonymized_message' = request.message
    /\ pii_map' = None
    /\ had_pii' = FALSE
    /\ pc' = "anonymized"
    /\ UNCHANGED <<request, intent_result, entities, analysis_result,
                   analysis_performed, llm_result, verified, response, raised>>

\* 1'. anonymize_input raises: nothing in chat() catches it.
AnonymizeInputRaises ==
    /\ pc = "start"
    /\ calls' = Append(calls, Call("anonymize_input", request.message,
                                    "AnonymizationFailure"))
    /\ raised' = "AnonymizationFailure"
    /\ pc' = "aborted"
    /\ UNCHANGED <<request, anonymized_message, pii_map, had_pii, intent_result,
                   entities, analysis_result, analysis_performed, llm_result,
                   verified, response>>

\* chat() with the classification also allowed ahead of the anonymization.
ClassifyIntent_BeforeAnonymize ==
    /\ pc \in {"start", "anonymized"}
    /\ intent_result' = classify_intent(request.message)
    /\ calls' = Append(calls, Call("classify_intent", request.message, ""))
    /\ pc' = IF pc = "start" THEN "start" ELSE "classified"
    /\ pc = "start" => intent_result = None
    /\ UNCHANGED <<request, anonymized_message, pii_map, had_pii, entities,
                   analysis_result, analysis_performed, llm_result, verified,
                   response, raised>>

\* 2. classify_intent(original_message)
ClassifyIntent ==
    /\ pc = "anonymized"
    /\ intent_result' = classify_intent(request.message)
    /\ calls' = Append(calls, Call("classify_intent", request.message, ""))
    /\ pc' = "classified"
    /\ UNCHANGED <<request, anonymized_message, pii_map, had_pii, entities,
                   analysis_result, analysis_performed, llm_result, verified,
                   response, raised>>

\* 3. The intent needs analysis and the message holds an entity:
\*    analyze_entities(entities) is awaited.
Analyze ==
    /\ pc = "classified"
    /\ needs_analysis(intent_result)
    /\ AnyEntities(get_entities_for_analysis(request.message))
    /\ entities' = get_entities_for_analysis(request.message)
    /\ \E outcome \in ServiceOutcomes :
           LET called == analyze_entities(entities', outcome)
           IN  /\ analysis_result' = called.result
               /\ calls' = calls \o [k \in 1..Len(called.sent) |->
                                        Call("analysis", called.sent[k],
                                             ServiceFailure(outcome))]
    /\ analysis_performed' = TRUE
    /\ pc' = "analyzed"
    /\ UNCHANGED <<request, anonymized_message, pii_map, had_pii, intent_result,
                   llm_result, verified, response, raised>>

\* 3'. No analysis: the intent does not need it, or no entity was found.
SkipAnalysis ==
    /\ pc = "classified"
    /\ ~(needs_analysis(intent_result)
         /\ AnyEntities(get_entities_for_analysis(request.message)))
    /\ entities' = IF needs_analysis(intent_result)
                   THEN get_entities_for_analysis(request.message)
                   ELSE None
    /\ pc' = "skipped"
    /\ UNCHANGED <<request, anonymized_message, pii_map, had_pii, intent_result,
                   analysis_result, analysis_performed, llm_result, verified,
                   response, raised, calls>>

\* 4. generate_response(anonymized_message, intent, request.context,
\*    analysis_result) is awaited; an exception it lets out ends the turn.
GenerateResponse ==
    /\ pc \in {"analyzed", "skipped"}
    /\ \E llm \in LLMOutcomes :
           LET g == generate_response(anonymized_message, intent_result.intent,
                                      request.context, analysis_result, llm)
           IN  /\ calls' = calls \o [k \in 1..Len(g.sent) |->
                                        Call("llm", g.sent[k], llm.raised)]
               /\ llm_result' = g.result
               /\ raised' = g.raised
               /\ pc' = IF g.raised = "" THEN "generated" ELSE "aborted"
    /\ UNCHANGED <<request, anonymized_message, pii_map, had_pii, intent_result,
                   entities, analysis_result, analysis_performed, verified,
                   response>>

\* 5. verify_output(response_text); an unsafe verdict is only logged.
VerifyOutput ==
    /\ pc = "generated"
    /\ verified' = check_output(detect(llm_result.response))
    /\ calls' = Append(calls, Call("verify_output", llm_result.response, ""))
    /\ pc' = "verified"
    /\ UNCHANGED <<request, anonymized_message, pii_map, had_pii, intent_result,
                   entities, analysis_result, analysis_performed, llm_result,
                   response, raised>>

\* trace of chat() built whether or not there is an analysis result.
AnalysisTrace_Always(result) ==
    [entity_type |-> Get(result, "type", None),
     entity_value |-> Get(result, "content", None),
     risk_score |-> Get(result, "risk_score", None),
     verdict |-> Get(result, "verdict", None),
     found_in_db |-> Get(result, "found_in_db", FALSE),
     source |-> Get(result, "source", None),
     reasons |-> Get(result, "reasons", << >>),
     latency_ms |-> Get(result, "latency_ms", None)]

\* trace of chat().
AnalysisTrace(result) ==
    IF Truthy(result)
    THEN [entity_type |-> Get(result, "type", None),
          entity_value |-> Get(result, "content", None),
          risk_score |-> Get(result, "risk_score", None),
          verdict |-> Get(result, "verdict", None),
          found_in_db |-> Get(result, "found_in_db", FALSE),
          source |-> Get(result, "source", None),
          reasons |-> Get(result, "reasons", << >>),
          latency_ms |-> Get(result, "latency_ms", None)]
    ELSE None

\* The ChatResponse chat() returns.
ChatResponse(response_text, mood, pii_detected, intent, performed, trace) ==
    [response |-> response_text, mood |-> mood, pii_detected |-> pii_detected,
     intent |-> intent, analysis_performed |-> performed, trace |-> trace]

\* chat() with the reply withheld when verify_output finds it unsafe.
Respond_Withheld ==
    /\ pc = "verified"
    /\ response' = ChatResponse(IF verified.is_safe THEN llm_result.response
                                ELSE <<"[respuesta retenida]">>,
                                llm_result.mood, had_pii,
                                intent_result.intent, analysis_performed,
                                AnalysisTrace(analysis_result))
    /\ pc' = "done"
    /\ UNCHANGED <<request, anonymized_message, pii_map, had_pii, intent_result,
                   entities, analysis_result, analysis_performed, llm_result,
                   verified, raised, calls>>

\* 6. The response is put together and returned.
Respond ==
    /\ pc = "verified"
    /\ response' = ChatResponse(llm_result.response, llm_result.mood, had_pii,
                                intent_result.intent, analysis_performed,
                                AnalysisTrace(analysis_result))
    /\ pc' = "done"
    /\ UNCHANGED <<request, anonymized_message, pii_map, had_pii, intent_result,
                   entities, analysis_result, analysis_performed, llm_result,
                   verified, raised, calls>>

\* The turn is over: the ChatResponse (or the internal error) has gone to the
\* caller and the locals of chat() are gone.
TurnEnds ==
    /\ pc \in {"done", "aborted"}
    /\ pc' = "idle"
    /\ request' = None
    /\ anonymized_message' = None
    /\ pii_map' = None
    /\ had_pii' = FALSE
    /\ intent_result' = None
    /\ entities' = None
    /\ analysis_result' = None
    /\ analysis_performed' = FALSE
    /\ llm_result' = None
    /\ verified' = None
    /\ response' = None
    /\ raised' = ""
    /\ calls' = << >>

Next ==
    \/ ChatStart
    \/ AnonymizeInput
    \/ AnonymizeInputRaises
    \/ ClassifyIntent
    \/ Analyze
    \/ SkipAnalysis
    \/ GenerateResponse
    \/ VerifyOutput
    \/ Respond
    \/ TurnEnds

Spec == Init /\ [][Next]_vars

-----------------------------------------------------------------------------
\* classify_intent on its own: any text goes in, the result comes out.

InitClassify ==
    /\ pc = "classify_intent"
    /\ request \in {ChatRequest(text, None) : text \in Texts}
    /\ LocalsUnset

ApplyClassify ==
    /\ pc = "classify_intent"
    /\ intent_result' = classify_intent(request.message)
    /\ pc' = "returned"
    /\ UNCHANGED <<request, anonymized_message, pii_map, had_pii, entities,
                   analysis_result, analysis_performed, llm_result, verified,
                   response, raised, calls>>

SpecClassify == InitClassify /\ [][ApplyClassify]_vars

-----------------------------------------------------------------------------
\* extract_entities on its own: any text goes in, the list of entities comes
\* out.

InitExtract ==
    /\ pc = "extract_entities"
    /\ request \in {ChatRequest(text, None) : text \in Texts}
    /\ LocalsUnset

ApplyExtract ==
    /\ pc = "extract_entities"
    /\ entities' = extract_entities(request.message)
    /\ pc' = "returned"
    /\ UNCHANGED <<request, anonymized_message, pii_map, had_pii, intent_result,
                   analysis_result, analysis_performed, llm_result, verified,
                   response, raised, calls>>

SpecExtract == InitExtract /\ [][ApplyExtract]_vars

-----------------------------------------------------------------------------
\* get_mood_from_risk on its own, called as generate_response calls it: on
\* the risk_score of an analysis result.

InitMood ==
    /\ pc = "get_mood_from_risk"
    /\ request = None
    /\ anonymized_message = None
    /\ pii_map = None
    /\ had_pii = FALSE
    /\ intent_result = None
    /\ entities = None
    /\ analysis_result \in {[risk_score |-> s] : s \in 0..MaxRisk}
    /\ analysis_performed = FALSE
    /\ llm_result = None
    /\ verified = None
    /\ response = None
    /\ raised = ""
    /\ calls = << >>

ApplyMood ==
    /\ pc = "get_mood_from_risk"
    /\ llm_result' = [mood |-> get_mood_from_risk(Get(analysis_result, "risk_score", 0))]
    /\ pc' = "returned"
    /\ UNCHANGED <<request, anonymized_message, pii_map, had_pii, intent_result,
                   entities, analysis_result, analysis_performed, verified,
                   response, raised, calls>>

SpecMood == InitMood /\ [][ApplyMood]_vars

-----------------------------------------------------------------------------
\* Several /chat turns served at once.  Every variable holds one value per
\* turn: the locals of that call of chat().  The module-level singletons
\* (pii_detector, anonymizer, the generation client) have no field that a
\* call writes, so they add no variable.  The event loop leaves a turn only at
\* an await; a switch is allowed here after every stage, which includes every
\* schedule of the loop.

MaxTurns == 2

Turns == 1..MaxTurns

\* The requests the turns carry: small talk, a rescue with a DNI in the
\* message and one earlier turn of context, and a URL to analyse.
TurnRequests ==
    {ChatRequest(<<"hola">>, << >>),
     ChatRequest(<<"12345678A", "emergencia">>, ContextOf(1)),
     ChatRequest(<<"https://b.es/x">>, << >>)}

\* What a collaborator answered to a call of the turn.
Reply(to, outcome) == [to |-> to, reply |-> outcome]

\* The local f of turn t gets the value v.
Set(f, t, v) == [f EXCEPT ![t] = v]

\* pii_detected of the response of turn t, had the anonymizer kept had_pii in
\* a field of the singleton that every turn sets.
PiiDetected_Shared(t) == \E u \in Turns : had_pii[u]

\* pii_detected of the response of turn t: the local had_pii of the turn.
PiiDetected(t) == had_pii[t]

InitConcurrent ==
    /\ pc = [t \in Turns |-> "start"]
    /\ request \in [Turns -> TurnRequests]
    /\ anonymized_message = [t \in Turns |-> None]
    /\ pii_map = [t \in Turns |-> None]
    /\ had_pii = [t \in Turns |-> FALSE]
    /\ intent_result = [t \in Turns |-> None]
    /\ entities = [t \in Turns |-> None]
    /\ analysis_result = [t \in Turns |-> None]
    /\ analysis_performed = [t \in Turns |-> FALSE]
    /\ llm_result = [t \in Turns |-> None]
    /\ verified = [t \in Turns |-> None]
    /\ response = [t \in Turns |-> None]
    /\ raised = [t \in Turns |-> ""]
    /\ calls = [t \in Turns |-> << >>]

TurnAnonymizeInput(t) ==
    /\ pc[t] = "start"
    /\ LET r == anonymize(request[t].message, detect(request[t].message))
       IN  /\ anonymized_message' = Set(anonymized_message, t, r.text)
           /\ pii_map' = Set(pii_map, t, r.pii_map)
           /\ had_pii' = Set(had_pii, t, r.had_pii)
    /\ calls' = Set(calls, t, Append(calls[t], Reply("anonymize_input", "")))
    /\ pc' = Set(pc, t, "anonymized")
    /\ UNCHANGED <<request, intent_result, entities, analysis_result,
                   analysis_performed, llm_result, verified, response, raised>>

TurnAnonymizeInputRaises(t) ==
    /\ pc[t] = "start"
    /\ calls' = Set(calls, t, Append(calls[t], Reply("anonymize_input",
                                                      "AnonymizationFailure")))
    /\ raised' = Set(raised, t, "AnonymizationFailure")
    /\ pc' = Set(pc, t, "aborted")
    /\ UNCHANGED <<request, anonymized_message, pii_map, had_pii, intent_result,
                   entities, analysis_result, analysis_performed, llm_result,
                   verified, response>>

TurnClassifyIntent(t) ==
    /\ pc[t] = "anonymized"
    /\ intent_result' = Set(intent_result, t, classify_intent(request[t].message))
    /\ pc' = Set(pc, t, "classified")
    /\ UNCHANGED <<request, anonymized_message, pii_map, had_pii, entities,
                   analysis_result, analysis_performed, llm_result, verified,
                   response, raised, calls>>

\* analyze_entities(entities) is called and the turn waits for the service.
TurnAwaitAnalysis(t) ==
    /\ pc[t] = "classified"
    /\ needs_analysis(intent_result[t])
    /\ AnyEntities(get_entities_for_analysis(request[t].message))
    /\ entities' = Set(entities, t, get_entities_for_analysis(request[t].message))
    /\ pc' = Set(pc, t, "awaiting")
    /\ UNCHANGED <<request, anonymized_message, pii_map, had_pii, intent_result,
                   analysis_result, analysis_performed, llm_result, verified,
                   response, raised, calls>>

\* The service answers, or the call fails, and analyze_entities returns.
TurnAnalysisReturns(t) ==
    /\ pc[t] = "awaiting"
    /\ \E outcome \in ServiceOutcomes :
           /\ analysis_result' =
                  Set(analysis_result, t, analyze_entities(entities[t], outcome).result)
           /\ calls' = Set(calls, t, Append(calls[t], Reply("analysis", outcome)))
    /\ analysis_performed' = Set(analysis_performed, t, TRUE)
    /\ pc' = Set(pc, t, "analyzed")
    /\ UNCHANGED <<request, anonymized_message, pii_map, had_pii, intent_result,
                   entities, llm_result, verified, response, raised>>

TurnSkipAnalysis(t) ==
    /\ pc[t] = "classified"
    /\ ~(needs_analysis(intent_result[t])
         /\ AnyEntities(get_entities_for_analysis(request[t].message)))
    /\ entities' = Set(entities, t,
                       IF needs_analysis(intent_result[t])
                       THEN get_entities_for_analysis(request[t].message)
                       ELSE None)
    /\ pc' = Set(pc, t, "skipped")
    /\ UNCHANGED <<request, anonymized_message, pii_map, had_pii, intent_result,
                   analysis_result, analysis_performed, llm_result, verified,
                   response, raised, calls>>

TurnGenerateResponse(t) ==
    /\ pc[t] \in {"analyzed", "skipped"}
    /\ \E llm \in LLMOutcomes :
           LET g == generate_response(anonymized_message[t], intent_result[t].intent,
                                      request[t].context, analysis_result[t], llm)
           IN  /\ calls' = Set(calls, t,
                               calls[t] \o [k \in 1..Len(g.sent) |-> Reply("llm", llm)])
               /\ llm_result' = Set(llm_result, t, g.result)
               /\ raised' = Set(raised, t, g.raised)
               /\ pc' = Set(pc, t, IF g.raised = "" THEN "generated" ELSE "aborted")
    /\ UNCHANGED <<request, anonymized_message, pii_map, had_pii, intent_result,
                   entities, analysis_result, analysis_performed, verified,
                   response>>

TurnVerifyOutput(t) ==
    /\ pc[t] = "generated"
    /\ verified' = Set(verified, t, check_output(detect(llm_result[t].response)))
    /\ pc' = Set(pc, t, "verified")
    /\ UNCHANGED <<request, anonymized_message, pii_map, had_pii, intent_result,
                   entities, analysis_result, analysis_performed, llm_result,
                   response, raised, calls>>

TurnRespond(t) ==
    /\ pc[t] = "verified"
    /\ response' = Set(response, t,
                       ChatResponse(llm_result[t].response, llm_result[t].mood,
                                    PiiDetected(t), intent_result[t].intent,
                                    analysis_performed[t],
                                    AnalysisTrace(analysis_result[t])))
    /\ pc' = Set(pc, t, "done")
    /\ UNCHANGED <<request, anonymized_message, pii_map, had_pii, intent_result,
                   entities, analysis_result, analysis_performed, llm_result,
                   verified, raised, calls>>

NextConcurrent ==
    \E t \in Turns :
        \/ TurnAnonymizeInput(t)
        \/ TurnAnonymizeInputRaises(t)
        \/ TurnClassifyIntent(t)
        \/ TurnAwaitAnalysis(t)
        \/ TurnAnalysisReturns(t)
        \/ TurnSkipAnalysis(t)
        \/ TurnGenerateResponse(t)
        \/ TurnVerifyOutput(t)
        \/ TurnRespond(t)

SpecConcurrent == InitConcurrent /\ [][NextConcurrent]_vars

-----------------------------------------------------------------------------
\* PIIAnonymizer.anonymize on its own: the text and the list the detector
\* returns for it are drawn, the call returns the triple.

MaxChars == 4

\* Texts whose characters differ from one another and from every character
\* of a placeholder, so that a character of the output names its origin.
Alphabet == <<"a", "b", "c", "d", "e", "f", "g", "h">>

CharTexts == {Take(Alphabet, n) : n \in 1..Min(MaxChars, Len(Alphabet))}

\* The score each recognizer gives, in hundredths.
ScoreOf(entity_type) == IF entity_type = "ES_DNI" THEN 95 ELSE 85

\* The results the analyzer can report for a text: spans of the entity types
\* asked for, [start, end) within the text.
SpansOf(text) ==
    {RecognizerResult(t, a, b, ScoreOf(t)) :
        t \in {"ES_DNI", "PERSON"}, a \in 0..(Len(text) - 1), b \in 1..Len(text)}

ContainedIn(r, o) == o.start <= r.start /\ r.end <= o.end

\* The lists PIIDetector.detect can return: any order, spans that coincide,
\* overlap or nest, but no result that lies within another result of its own
\* entity type (the analyzer removes those).
DetectorResults(text) ==
    {results \in UNION {[1..n -> {r \in SpansOf(text) : r.start < r.end}] : n \in 0..MaxList} :
        \A i, k \in 1..Len(results) :
            (i # k /\ results[i].entity_type = results[k].entity_type)
                => ~ContainedIn(results[i], results[k])}

InitAnonymize ==
    /\ pc = "anonymize"
    /\ request \in {[message |-> text] : text \in CharTexts}
    /\ entities \in DetectorResults(request.message)
    /\ anonymized_message = None
    /\ pii_map = None
    /\ had_pii = FALSE
    /\ intent_result = None
    /\ analysis_result = None
    /\ analysis_performed = FALSE
    /\ llm_result = None
    /\ verified = None
    /\ response = None
    /\ raised = ""
    /\ calls = << >>

ApplyAnonymize ==
    /\ pc = "anonymize"
    /\ LET r == anonymize(request.message, entities)
       IN  /\ anonymized_message' = r.text
           /\ pii_map' = r.pii_map
           /\ had_pii' = r.had_pii
    /\ pc' = "returned"
    /\ UNCHANGED <<request, intent_result, entities, analysis_result,
                   analysis_performed, llm_result, verified, response, raised,
                   calls>>

SpecAnonymize == InitAnonymize /\ [][ApplyAnonymize]_vars

-----------------------------------------------------------------------------
\* analyze_entities on its own: any {urls, emails, phones} goes in, the
\* service does whatever it does, the result comes out.

SeqsUpTo(S, n) == UNION {[1..k -> S] : k \in 0..n}

EntityArrays ==
    [urls : SeqsUpTo({"https://b.es/x", "b.io"}, MaxList),
     emails : SeqsUpTo({"u@b.es", "v@b.es"}, MaxList),
     phones : SeqsUpTo({"612345678", "+34612345678"}, MaxList)]

InitDispatch ==
    /\ pc = "analyze_entities"
    /\ request = None
    /\ anonymized_message = None
    /\ pii_map = None
    /\ had_pii = FALSE
    /\ intent_result = None
    /\ entities \in EntityArrays
    /\ analysis_result = None
    /\ analysis_performed = FALSE
    /\ llm_result = None
    /\ verified = None
    /\ response = None
    /\ raised = ""
    /\ calls = << >>

ApplyDispatch ==
    /\ pc = "analyze_entities"
    /\ \E outcome \in ServiceOutcomes :
           LET called == analyze_entities(entities, outcome)
           IN  /\ analysis_result' = called.result
               /\ calls' = calls \o [k \in 1..Len(called.sent) |->
                                        Call("analysis", called.sent[k],
                                             ServiceFailure(outcome))]
    /\ pc' = "returned"
    /\ UNCHANGED <<request, anonymized_message, pii_map, had_pii, intent_result,
                   entities, analysis_performed, llm_result, verified, response,
                   raised>>

SpecDispatch == InitDispatch /\ [][ApplyDispatch]_vars

-----------------------------------------------------------------------------
\* Properties of one /chat turn (Spec).

\* The texts anonymize_input has given back in this turn.
AnonymizedTexts ==
    LET done == SelectSeq(calls, LAMBDA c : c.to = "anonymize_input" /\ c.raised = "")
    IN  {anonymize(done[k].arg, detect(done[k].arg)).text : k \in 1..Len(done)}

\* C1: every text of the caller that reaches the generation service, the
\* message of the turn and each turn of the context alike, went through the
\* anonymizer first: what the service receives is the anonymizer's output.
C1_OnlyAnonymizedTextReachesGenerator ==
    \A k \in 1..Len(CallsTo("llm")) :
        LET messages == CallsTo("llm")[k].arg
        IN  /\ messages[Len(messages)].content.head \in AnonymizedTexts
            /\ \A j \in 2..(Len(messages) - 1) :
                   messages[j].content \in AnonymizedTexts

\* The anonymize_input call of the turn raised.
AnonymizerFailed ==
    \E k \in 1..Len(calls) :
        calls[k].to = "anonymize_input" /\ calls[k].raised # ""

\* C2: when the anonymizer fails the turn is aborted: no later stage runs, no
\* text reaches the analysis or the generation service, and no response is
\* built.
C2_AnonymizerFailureAbortsTurn ==
    AnonymizerFailed =>
        /\ pc = "aborted"
        /\ raised = "AnonymizationFailure"
        /\ Len(calls) = 1
        /\ CallsTo("analysis") = << >>
        /\ CallsTo("llm") = << >>
        /\ intent_result = None
        /\ llm_result = None
        /\ response = None

C2_Witness ==
    /\ pc = "aborted"
    /\ AnonymizerFailed
    /\ HasAnalyzableEntity(request.message)

\* The collaborators of the calls made so far, in order.
CallNames == [k \in 1..Len(calls) |-> calls[k].to]

\* The order of the stages of a turn that analyzes, or does not.
StageOrder ==
    <<"anonymize_input", "classify_intent">>
        \o (IF analysis_performed THEN <<"analysis">> ELSE << >>)
        \o <<"llm", "verify_output">>

\* C3: the stages of a turn run in this order and each at most once:
\* anonymize, classify, analyze or skip the analysis, generate, verify,
\* respond.
C3_StagesInOrder ==
    /\ Len(calls) <= Len(StageOrder)
    /\ CallNames = Take(StageOrder, Len(calls))
    /\ pc \in {"idle", "start"} => calls = << >>
    /\ pc = "anonymized" => Len(calls) = 1
    /\ pc \in {"classified", "skipped"} => Len(calls) = 2 /\ ~analysis_performed
    /\ pc = "analyzed" => Len(calls) = 3 /\ analysis_performed
    /\ pc = "generated" => Len(calls) = Len(StageOrder) - 1
    /\ pc \in {"verified", "done"} => Len(calls) = Len(StageOrder)
    /\ (response # None) <=> (pc = "done")

C3_Witness ==
    /\ pc = "done"
    /\ CallNames = <<"anonymize_input", "classify_intent", "llm", "verify_output">>
    /\ response # None

\* C4: a turn to which an analysis result was attached goes on through the
\* generation and the verification and ends with a response; it is never
\* ended by an internal error.
C4_AnalyzedTurnIsNotAborted ==
    ~(pc = "aborted" /\ Truthy(analysis_result))

\* The call to the generation service raised.
GeneratorFailed ==
    \E k \in 1..Len(calls) : calls[k].to = "llm" /\ calls[k].raised # ""

\* C5: when the generation service fails, the turn is not aborted: the reply
\* is the fixed fallback text with mood "thinking", the verifier runs on it,
\* the response is returned, and the response carries nothing of the error.
C5_GeneratorFailureFallsBack ==
    GeneratorFailed =>
        /\ pc \in {"generated", "verified", "done"}
        /\ raised = ""
        /\ llm_result.response = FallbackReply
        /\ llm_result.mood = "thinking"
        /\ pc = "generated" => ENABLED VerifyOutput
        /\ pc \in {"verified", "done"} =>
               /\ calls[Len(calls)].to = "verify_output"
               /\ calls[Len(calls)].arg = FallbackReply
        /\ pc = "verified" => ENABLED Respond
        /\ pc = "done" =>
               /\ response.response = FallbackReply
               /\ response.mood = "thinking"
               /\ "error" \notin DOMAIN response
               /\ response.response # llm_result.error

C5_Witness ==
    /\ pc = "done"
    /\ GeneratorFailed
    /\ intent_result.intent = "rescue"

\* The turn is past the point where chat() decides whether to analyze.
AnalysisDecided ==
    \/ pc \in {"analyzed", "skipped", "generated", "verified", "done"}
    \/ pc = "aborted" /\ ~AnonymizerFailed

\* C6: the analysis service is called exactly when the intent is Analysis and
\* the message holds at least one entity; otherwise it is not called and the
\* turn carries no analysis result.
C6_AnalysisIffIntentAndEntity ==
    LET wanted == /\ intent_result.intent = "analysis"
                  /\ extract_entities(request.message) # << >>
    IN  /\ ~AnalysisDecided => CallsTo("analysis") = << >>
        /\ AnalysisDecided =>
               /\ Len(CallsTo("analysis")) = (IF wanted THEN 1 ELSE 0)
               /\ analysis_performed <=> wanted
               /\ ~wanted => analysis_result = None
               /\ pc = "done" =>
                      /\ response.analysis_performed <=> wanted
                      /\ ~wanted => response.trace = None

C6_Witness ==
    /\ pc = "analyzed"
    /\ Len(CallsTo("analysis")) = 1
    /\ intent_result.intent = "analysis"
    /\ extract_entities(request.message) # << >>

\* C9: the text of the response is the text the generation stage produced,
\* whether verify_output found it safe or not; the verdict changes nothing in
\* the response.
C9_VerifierDoesNotChangeResponse ==
    pc = "done" =>
        /\ response.response = llm_result.response
        /\ response.response = CallsTo("verify_output")[1].arg
        /\ response = ChatResponse(llm_result.response, llm_result.mood, had_pii,
                                   intent_result.intent, analysis_performed,
                                   AnalysisTrace(analysis_result))

C9_Witness ==
    /\ pc = "done"
    /\ ~verified.is_safe
    /\ response.response = <<"respuesta", "12345678A">>

\* C18 as stated: every turn classified Rescue that reaches Done carries mood
\* danger, whether or not the generation call succeeded.
C18_RescueAlwaysDanger ==
    (pc = "done" /\ intent_result.intent = "rescue") => response.mood = "danger"

\* C18 as the code has it: a turn classified Rescue that reaches Done
\* carries mood danger when the generation call succeeded and mood thinking,
\* with the fallback text, when it failed.
C18_RescueDangerUnlessFallback ==
    (pc = "done" /\ intent_result.intent = "rescue") =>
        IF GeneratorFailed
        THEN response.mood = "thinking" /\ response.response = FallbackReply
        ELSE response.mood = "danger" /\ response.response \in LLMReplies

C18_Witness ==
    /\ pc = "done"
    /\ intent_result.intent = "rescue"
    /\ intent_result.confidence = 30
    /\ GeneratorFailed
    /\ response.mood = "thinking"

\* The template that belongs to an intent.
TemplateOf(intent) ==
    CASE intent = "analysis" -> "ANALYSIS_PROMPT"
      [] intent = "rescue" -> "RESCUE_PROMPT"
      [] intent = "question" -> "QUESTION_PROMPT"
      [] intent = "smalltalk" -> "SMALLTALK_PROMPT"
      [] intent = "needs_info" -> "NEEDS_INFO_PROMPT"
      [] intent = "report" -> "REPORT_PROMPT"

\* C19: the prompt block appended to the user turn is the template of the
\* classified intent, for each of the six intents; a turn classified Report
\* gets the fixed Report string, and no intent gets another intent's
\* template.
C19_BlockIsTemplateOfIntent ==
    \A k \in 1..Len(CallsTo("llm")) :
        LET messages == CallsTo("llm")[k].arg
        IN  messages[Len(messages)].content.block.template
                = TemplateOf(intent_result.intent)

\* C20: the message list handed to the generation service is one system
\* message, then the last min(10, n) of the n context turns in their order,
\* then one user turn whose content is the anonymized message, two newlines
\* and the prompt block; the raw message is not what the user turn carries.
C20_MessageList ==
    \A k \in 1..Len(CallsTo("llm")) :
        LET messages == CallsTo("llm")[k].arg
            n == Len(request.context)
            kept == IF n < 10 THEN n ELSE 10
            last == messages[Len(messages)]
        IN  /\ Len(CallsTo("llm")) = 1
            /\ Len(messages) = kept + 2
            /\ messages[1] = ChatMessage("system", "FY_SYSTEM_PROMPT")
            /\ \A j \in 1..kept : messages[1 + j] = request.context[n - kept + j]
            /\ last.role = "user"
            /\ last.content.head = anonymized_message
            /\ last.content.sep = "\n\n"
            /\ last.content.block.raised = ""
            /\ last.content.block
                   = PromptAddition(anonymized_message, intent_result.intent,
                                    analysis_result)
            /\ had_pii => last.content.head # request.message

C20_Witness ==
    /\ CallsTo("llm") # << >>
    /\ Len(request.context) = ContextWindow + 1
    /\ had_pii
    /\ Len(CallsTo("llm")[1].arg) = ContextWindow + 2
    /\ CallsTo("llm")[1].arg[2] = request.context[2]

-----------------------------------------------------------------------------
\* Properties of analyze_entities (SpecDispatch).

\* The value a request to the analysis service asks about.
SentValue(sent) == sent.json[CHOOSE f \in DOMAIN sent.json : TRUE]

\* The entity type an endpoint of the analysis service stands for.
TypeOfPath(path) ==
    CASE path = "/analyze/url" -> "url"
      [] path = "/analyze/email" -> "email"
      [] path = "/analyze/phone" -> "phone"

\* C7: analyze_entities sends one entity, chosen by priority: the first URL
\* if there is any, else the first email, else the first phone; with the
\* three arrays empty it sends nothing and returns null.
C7_OneEntityByPriority ==
    pc = "returned" =>
        LET sent == CallsTo("analysis")
            One(path, value) ==
                /\ Len(sent) = 1
                /\ sent[1].arg.path = path
                /\ SentValue(sent[1].arg) = value
                /\ analysis_result # None
        IN  IF entities.urls # << >> THEN One("/analyze/url", entities.urls[1])
            ELSE IF entities.emails # << >>
            THEN One("/analyze/email", entities.emails[1])
            ELSE IF entities.phones # << >>
            THEN One("/analyze/phone", entities.phones[1])
            ELSE sent = << >> /\ analysis_result = None

C7_Witness ==
    /\ pc = "returned"
    /\ Len(entities.urls) = 2
    /\ entities.emails # << >>
    /\ entities.phones # << >>
    /\ CallsTo("analysis")[1].arg = Post("/analyze/url", [url |-> entities.urls[1]])

Selected(entity_arrays) ==
    IF entity_arrays.urls # << >>
    THEN [type |-> "url", value |-> entity_arrays.urls[1]]
    ELSE IF entity_arrays.emails # << >>
    THEN [type |-> "email", value |-> entity_arrays.emails[1]]
    ELSE [type |-> "phone", value |-> entity_arrays.phones[1]]

\* C24: the analysis request is a POST to the endpoint of the selected
\* entity's type (/analyze/url, /analyze/email, /analyze/phone) and its body
\* carries the selected entity's string under the field "value", for the
\* three types.
C24_BodyFieldIsValue ==
    pc = "returned" =>
        \A k \in 1..Len(CallsTo("analysis")) :
            LET sent == CallsTo("analysis")[k].arg
            IN  /\ sent.method = "POST"
                /\ TypeOfPath(sent.path) = Selected(entities).type
                /\ DOMAIN sent.json = {"value"}
                /\ Get(sent.json, "value", "") = Selected(entities).value

-----------------------------------------------------------------------------
\* Properties of classify_intent (SpecClassify).

\* C10: a text in which any Analysis pattern matches (a URL, an email, a
\* phone number) scores at least 2 for Analysis and is classified Analysis
\* with confidence min(score / 5, 1), whatever else it says.
C10_EntityMeansAnalysis ==
    pc = "returned" =>
        (PatternHits("analysis", request.message) # << >> =>
            /\ Score("analysis", request.message) >= 2
            /\ intent_result.intent = "analysis"
            /\ intent_result.confidence * 5
                   = Min(Score("analysis", request.message) * 30, 150))

C10_Witness ==
    /\ pc = "returned"
    /\ PatternHits("analysis", request.message) # << >>
    /\ Score("rescue", request.message) > 0
    /\ Score("analysis", request.message) < 5
    /\ intent_result.intent = "analysis"

\* C11: with an Analysis score below 2, any positive Rescue score gives Rescue
\* with confidence min(score / 3, 1), whatever the other scores; failing that,
\* any positive Report score gives Report with confidence min(score / 2, 1).
C11_RescueThenReport ==
    pc = "returned" =>
        LET text == request.message
        IN  Score("analysis", text) < 2 =>
                /\ Score("rescue", text) > 0 =>
                       /\ intent_result.intent = "rescue"
                       /\ intent_result.confidence * 3
                              = Min(Score("rescue", text) * 30, 90)
                /\ Score("rescue", text) = 0 /\ Score("report", text) > 0 =>
                       /\ intent_result.intent = "report"
                       /\ intent_result.confidence * 2
                              = Min(Score("report", text) * 30, 60)

C11_Witness ==
    /\ pc = "returned"
    /\ Score("analysis", request.message) < 2
    /\ Score("rescue", request.message) > 0
    /\ Score("report", request.message) > 2
    /\ intent_result.intent = "rescue"

\* C12: classify_intent returns NeedsInfo exactly when the Analysis score is
\* below 2, the Rescue and Report scores are 0, the NeedsInfo score is
\* positive and no Analysis pattern matches; a text with an analyzable entity
\* is never NeedsInfo.
C12_NeedsInfoExactly ==
    pc = "returned" =>
        LET text == request.message
        IN  /\ intent_result.intent = "needs_info" <=>
                   /\ Score("analysis", text) < 2
                   /\ Score("rescue", text) = 0
                   /\ Score("report", text) = 0
                   /\ Score("needs_info", text) > 0
                   /\ PatternHits("analysis", text) = << >>
            /\ PatternHits("analysis", text) # << >> =>
                   intent_result.intent # "needs_info"
            /\ intent_result.intent = "needs_info" =>
                   /\ intent_result.confidence * 3
                          = Min(Score("needs_info", text) * 30, 90)
                   /\ intent_result.trigger_words = Triggers("needs_info", text)

C12_Witness ==
    /\ pc = "returned"
    /\ intent_result.intent = "needs_info"
    /\ Score("analysis", request.message) = 1
    /\ Score("smalltalk", request.message) = 1

\* The divisor of the rule that returned the intent: 5.0 for the Analysis
\* rule, 2.0 for Report, 3.0 for the others.
DivisorOf(intent, score) ==
    IF intent = "analysis" /\ score >= 2 THEN 5
    ELSE IF intent = "report" THEN 2
    ELSE 3

\* C13: when every score is 0 the result is Question with confidence 0.3 and
\* no triggers; in every other case the confidence is min(score / k, 1) of
\* the returned intent's own score and the triggers are the hits recorded
\* for the returned intent.
C13_DefaultAndOwnScore ==
    pc = "returned" =>
        LET text == request.message
            own == Score(intent_result.intent, text)
            k == DivisorOf(intent_result.intent, own)
        IN  IF \A i \in IntentSet : Score(i, text) = 0
            THEN /\ intent_result.intent = "question"
                 /\ intent_result.confidence * 10 = 3 * 30
                 /\ intent_result.trigger_words = << >>
            ELSE /\ own > 0
                 /\ intent_result.confidence * k = Min(own * 30, 30 * k)
                 /\ intent_result.trigger_words = Triggers(intent_result.intent, text)

C13_Witness ==
    /\ pc = "returned"
    /\ request.message # << >>
    /\ \A i \in IntentSet : Score(i, request.message) = 0
    /\ intent_result.intent = "question"

\* The largest-score rule is reached: no earlier rule returned.
MaxRuleReached(text) ==
    /\ Score("analysis", text) < 2
    /\ Score("rescue", text) = 0
    /\ Score("report", text) = 0
    /\ ~(Score("needs_info", text) > 0 /\ PatternHits("analysis", text) = << >>)

\* The place of an intent in the declaration order.
DeclaredAt(intent) == CHOOSE i \in 1..Len(Intents) : Intents[i] = intent

\* C14: when the largest-score rule is reached with a positive largest score,
\* the intent returned is, of the intents other than NeedsInfo that carry the
\* largest score, the one declared first (Analysis, NeedsInfo, Question,
\* Rescue, Report, Smalltalk).
C14_TieGoesToFirstDeclared ==
    pc = "returned" =>
        LET text == request.message
            others == IntentSet \ {"needs_info"}
        IN  (MaxRuleReached(text) /\ \E i \in others : Score(i, text) > 0) =>
                /\ intent_result.intent \in others
                /\ \A i \in others :
                       Score(i, text) <= Score(intent_result.intent, text)
                /\ \A i \in others :
                       DeclaredAt(i) < DeclaredAt(intent_result.intent) =>
                           Score(i, text) < Score(intent_result.intent, text)

C14_Witness ==
    /\ pc = "returned"
    /\ MaxRuleReached(request.message)
    /\ Score("question", request.message) = 1
    /\ Score("smalltalk", request.message) = 1
    /\ Score("analysis", request.message) = 0
    /\ intent_result.intent = "question"

-----------------------------------------------------------------------------
\* Properties of extract_entities (SpecExtract).

\* C15: the entities extract_entities returns carry pairwise distinct values,
\* of the same type or not, also when the same email, URL or phone occurs
\* several times in the text.
C15_ValuesPairwiseDistinct ==
    pc = "returned" =>
        \A i, j \in 1..Len(entities) :
            i # j => entities[i].value # entities[j].value

\* A URL candidate's value lower-cased, without the protocol and without a
\* leading "www.".
WithoutProtocolAndWww(value) ==
    CASE value = "https://b.es/x" -> "b.es/x"
      [] value = "www.b.es" -> "b.es"
      [] OTHER -> Lower(value)

\* The values the URL patterns match in the text.
UrlCandidates(text) ==
    UNION {{FindIter("url", p, text)[k].value :
                k \in 1..Len(FindIter("url", p, text))} : p \in 1..PatternCount("url")}

\* C16: a URL candidate is dropped by the domain-collision rule exactly when
\* its value, lower-cased and without protocol and leading "www.", is the
\* domain of an email of the same text; every other URL candidate (one with
\* a path, for example) is among the entities returned.
C16_DomainCollisionOnly ==
    pc = "returned" =>
        \A value \in UrlCandidates(request.message) :
            (\E k \in 1..Len(entities) :
                 entities[k].type = "url" /\ entities[k].value = value)
            <=> WithoutProtocolAndWww(value) \notin EmailDomains(request.message)

-----------------------------------------------------------------------------
\* Properties of get_mood_from_risk (SpecMood).

-----------------------------------------------------------------------------
\* More properties of classify_intent (SpecClassify).

-----------------------------------------------------------------------------
\* Properties of PIIAnonymizer.anonymize (SpecAnonymize).

\* The characters of the original text that lie inside a detected span.
SpanChars(text, results) ==
    {text[p + 1] : p \in {q \in 0..(Len(text) - 1) :
                            \E k \in 1..Len(results) :
                                results[k].start <= q /\ q < results[k].end}}

\* C26: whatever the detector returns for a text (spans that coincide,
\* overlap or nest included), the text anonymize returns holds no character
\* of the original that lies inside a detected span.
C26_NoSpanCharacterSurvives ==
    pc = "returned" =>
        SpanChars(request.message, entities) \cap SeqToSet(anonymized_message) = {}

IsPrefixAt(key, text, p) ==
    /\ p + Len(key) - 1 <= Len(text)
    /\ \A k \in 1..Len(key) : text[p + k - 1] = key[k]

\* The text with every placeholder of the map replaced by its value, read
\* from position p on.
RECURSIVE RestoreFrom(_, _, _)
RestoreFrom(text, map, p) ==
    IF p > Len(text) THEN << >>
    ELSE LET keys == {key \in DOMAIN map : IsPrefixAt(key, text, p)}
         IN  IF keys = {}
             THEN <<text[p]>> \o RestoreFrom(text, map, p + 1)
             ELSE LET key == CHOOSE key \in keys : TRUE
                  IN  map[key] \o RestoreFrom(text, map, p + Len(key))

Restore(text, map) == RestoreFrom(text, map, 1)

\* C27: anonymize is undone by its map: had_pii is true exactly when the map
\* is not empty, the map has one placeholder of its own for each detected
\* span, mapped to the span's original substring, and putting the values back
\* for the placeholders in the anonymized text gives the original text.
C27_MapRestoresText ==
    pc = "returned" =>
        LET text == request.message
            sorted == SortByStartDesc(entities)
        IN  /\ had_pii <=> (pii_map # None)
            /\ Cardinality(DOMAIN pii_map) = Len(entities)
            /\ \A i \in 1..Len(sorted) :
                   /\ Placeholder(sorted[i].entity_type, i - 1) \in DOMAIN pii_map
                   /\ pii_map[Placeholder(sorted[i].entity_type, i - 1)]
                          = Drop(Take(text, sorted[i].end), sorted[i].start)
            /\ Restore(anonymized_message, pii_map) = text

-----------------------------------------------------------------------------
\* Properties of concurrent turns (SpecConcurrent).

\* The answers a turn got from one collaborator, in order.
RepliesOf(replies, to) ==
    LET from == SelectSeq(replies, LAMBDA r : r.to = to)
    IN  [k \in 1..Len(from) |-> from[k].reply]

\* How chat() ends when it serves the request with no other turn around and
\* its collaborators answer as in replies: the ChatResponse returned and the
\* exception that ended the turn.
RunAlone(req, replies) ==
    LET anonymized == anonymize(req.message, detect(req.message))
        intent == classify_intent(req.message)
        found == get_entities_for_analysis(req.message)
        performed == needs_analysis(intent) /\ AnyEntities(found)
        result == IF performed
                  THEN analyze_entities(found, RepliesOf(replies, "analysis")[1]).result
                  ELSE None
        llm == IF RepliesOf(replies, "llm") = << >>
               THEN CHOOSE o \in LLMOutcomes : TRUE
               ELSE RepliesOf(replies, "llm")[1]
        g == generate_response(anonymized.text, intent.intent, req.context, result, llm)
    IN  IF RepliesOf(replies, "anonymize_input") = <<"AnonymizationFailure">>
        THEN [response |-> None, raised |-> "AnonymizationFailure"]
        ELSE IF g.raised # ""
        THEN [response |-> None, raised |-> g.raised]
        ELSE [response |-> ChatResponse(g.result.response, g.result.mood,
                                        anonymized.had_pii, intent.intent,
                                        performed, AnalysisTrace(result)),
              raised |-> ""]

\* C22: however the turns served at once interleave, a turn that has ended
\* has the ChatResponse (or the failure) it would have had alone with the
\* same request and the same answers to its own calls, and a turn on its way
\* has none; its locals hold what its own request gives.
C22_TurnsDoNotInterfere ==
    \A t \in Turns :
        /\ pc[t] \in {"done", "aborted"} =>
               [response |-> response[t], raised |-> raised[t]]
                   = RunAlone(request[t], calls[t])
        /\ pc[t] \notin {"done", "aborted"} => response[t] = None /\ raised[t] = ""
        /\ pc[t] \notin {"start", "aborted"} =>
               /\ anonymized_message[t]
                      = anonymize(request[t].message, detect(request[t].message)).text
               /\ had_pii[t]
                      = anonymize(request[t].message, detect(request[t].message)).had_pii
        /\ intent_result[t] # None =>
               intent_result[t] = classify_intent(request[t].message)

\* A turn has ended with PII found in its message while another, whose
\* message holds none, waits for the analysis service.
C22_Witness ==
    /\ pc[1] = "awaiting"
    /\ ~had_pii[1]
    /\ pc[2] = "done"
    /\ response[2].pii_detected
    /\ response[2].intent = "rescue"

====
